---- MODULE Spec2Model ----
(***************************************************************************)
(* A model of github.com/hazaelsan/ipcalc (package ipcalc and its         *)
(* sub-package wildcard).  Addresses and masks are sequences of bytes     *)
(* (0..255), most significant byte first, exactly as net.IP / net.IPMask. *)
(* A nil slice is the empty sequence.  A run-time panic (index out of     *)
(* range) is the value PANIC.                                             *)
(***************************************************************************)
EXTENDS Integers, Sequences, FiniteSets, TLC

VARIABLES
    x,      \* arithmetic harness: the address the caller started from
    opb,    \* arithmetic harness: second operand b of Add/Substract
    opm,    \* arithmetic harness: mask operand of Add/Substract
    arg,    \* arithmetic harness: the first argument of the last call
    cur,    \* arithmetic harness: the value returned by the last call
    ops,    \* arithmetic harness: the calls made so far, in order
    wsrc,   \* wildcard harness: the arguments the Wildcard was made from
    w,      \* wildcard harness: the Wildcard made by New or FindWildcard
    w2,     \* wildcard harness: the Wildcard returned by w.First() or w.Last()
    made,   \* wildcard harness: how w and w2 were made
    nw,     \* wildcard harness: <<Next calls, Prev calls>> made on w
    n2,     \* wildcard harness: <<Next calls, Prev calls>> made on w2
    seen,   \* wildcard harness: the addresses Next/Prev returned on w2
    was,    \* wildcard harness: the cursor the last Next/Prev started from
    ret,    \* wildcard harness: the last call <<method, target>> and its result
    aw,     \* wildcard harness: the backing array of each slice field of w
    aw2,    \* wildcard harness: the backing array of each slice field of w2
    na,     \* network harness: the first net.IPNet, [IP, Mask]
    nb,     \* network harness: the second net.IPNet
    nop,    \* network harness: the function called, "" before the call
    nres,   \* network harness: what the call returned
    psegs,  \* parse harness: the pieces the input text is joined from
    ptext,  \* parse harness: the input text, a sequence of characters
    pres    \* parse harness: what ParseIPMask returned, [ip, mask, err]

arith == <<x, opb, opm, arg, cur, ops>>
wild == <<wsrc, w, w2, made, nw, n2, seen, was, ret, aw, aw2>>
nets == <<na, nb, nop, nres>>
parse == <<psegs, ptext, pres>>
vars == <<arith, wild, nets, parse>>

----------------------------------------------------------------------------
(* Bounds of the harnesses.                                                *)

\* The longest chain of calls a harness makes on one value.
MaxOps == 2

\* The most Next/Prev calls made on the Wildcard that New returned.
MaxRecvSteps == 2

\* The most Next/Prev calls made on the Wildcard that First/Last returned.
MaxSteps == 5

\* The most addresses passed to FindWildcard after the first two.
MaxExtra == 1

\* The most pieces, separated by "/", in a text given to ParseIPMask.
MaxPieces == 3

----------------------------------------------------------------------------
(* Values of package net that the code relies on.                          *)

IPv4len == 4
IPv6len == 16

Nil == << >>
PANIC == << -1 >>

Rep(n, v) == [i \in 1..n |-> v]

----------------------------------------------------------------------------
(* Go's operators on a uint8.                                              *)

\* bit reports whether bit i (0 = least significant) of byte b is set.
bit(b, i) == (b \div (2 ^ i)) % 2 = 1

RECURSIVE ByteAnd(_, _)
ByteAnd(p, q) ==
    IF p = 0 \/ q = 0 THEN 0
    ELSE 2 * ByteAnd(p \div 2, q \div 2) + (IF p % 2 = 1 /\ q % 2 = 1 THEN 1 ELSE 0)

RECURSIVE ByteOr(_, _)
ByteOr(p, q) ==
    IF p = 0 THEN q
    ELSE IF q = 0 THEN p
    ELSE 2 * ByteOr(p \div 2, q \div 2) + (IF p % 2 = 1 \/ q % 2 = 1 THEN 1 ELSE 0)

RECURSIVE ByteXor(_, _)
ByteXor(p, q) ==
    IF p = 0 THEN q
    ELSE IF q = 0 THEN p
    ELSE 2 * ByteXor(p \div 2, q \div 2) + (IF p % 2 # q % 2 THEN 1 ELSE 0)

ByteNot(p)    == 255 - p

----------------------------------------------------------------------------
(* package net: To4 and Equal, as the code calls them.                     *)

IsV4InV6(ip) ==
    /\ Len(ip) = IPv6len
    /\ \A i \in 1..10 : ip[i] = 0
    /\ ip[11] = 255
    /\ ip[12] = 255

\* net.IP.To4: the 4-byte form of an IPv4 address, nil when it is not one.
To4(ip) ==
    IF Len(ip) = IPv4len THEN ip
    ELSE IF IsV4InV6(ip) THEN SubSeq(ip, 13, 16)
    ELSE Nil

\* net.IP.To16: the 16-byte form, nil for any other length.
To16(ip) ==
    IF Len(ip) = IPv4len THEN Rep(10, 0) \o <<255, 255>> \o ip
    ELSE IF Len(ip) = IPv6len THEN ip
    ELSE Nil

\* net.IP.Equal: an IPv4 address and its 16-byte form are equal.
Equal(p, q) ==
    IF Len(p) = Len(q) THEN p = q
    ELSE IF Len(p) = IPv4len /\ Len(q) = IPv6len THEN IsV4InV6(q) /\ SubSeq(q, 13, 16) = p
    ELSE IF Len(p) = IPv6len /\ Len(q) = IPv4len THEN IsV4InV6(p) /\ SubSeq(p, 13, 16) = q
    ELSE FALSE

----------------------------------------------------------------------------
(* package ipcalc.                                                         *)

CopyIP(ip) == ip

IP(ip) == IF To4(ip) # Nil THEN CopyIP(To4(ip)) ELSE CopyIP(ip)

IPVersion(ip) == IF Len(IP(ip)) = IPv4len THEN 4 ELSE 6

IPSize(ip) == IF IPVersion(ip) = 4 THEN IPv4len ELSE IPv6len

Complement(mask) == IF mask = Nil THEN Nil ELSE [i \in 1..Len(mask) |-> ByteNot(mask[i])]

\* The loop of NextIP from byte i (1-based) leftward.
\* (NextIPNoCarry: the loop with the break taken after the first byte.)
NextIPNoCarry(ip, i) == IF i < 1 THEN ip ELSE [ip EXCEPT ![i] = (ip[i] + 1) % 256]

RECURSIVE NextIPLoop(_, _)
NextIPLoop(ip, i) ==
    IF i < 1 THEN ip
    ELSE LET v == (ip[i] + 1) % 256
             n == [ip EXCEPT ![i] = v]
         IN  IF v # 0 THEN n ELSE NextIPLoop(n, i - 1)

NextIP(ip0) ==
    LET ip == IP(ip0)
    IN  IF IPSize(ip) > Len(ip) THEN PANIC ELSE NextIPLoop(ip, IPSize(ip))

\* The loop of PrevIP from byte i (1-based) leftward.
RECURSIVE PrevIPLoop(_, _)
PrevIPLoop(ip, i) ==
    IF i < 1 THEN ip
    ELSE LET v == (ip[i] + 255) % 256
             n == [ip EXCEPT ![i] = v]
         IN  IF v # 255 THEN n ELSE PrevIPLoop(n, i - 1)

PrevIP(ip0) ==
    LET ip == IP(ip0)
    IN  IF IPSize(ip) > Len(ip) THEN PANIC ELSE PrevIPLoop(ip, IPSize(ip))

\* Add's inner loop: the carry out of byte j+1 ripples from byte j leftward.
\* (AddCarryOneByte: the inner loop stopping after one byte.)
AddCarryOneByte(a, j) == IF j < 1 THEN a ELSE [a EXCEPT ![j] = (a[j] + 1) % 256]

RECURSIVE AddCarry(_, _)
AddCarry(a, j) ==
    IF j < 1 THEN a
    ELSE LET v == (a[j] + 1) % 256
             n == [a EXCEPT ![j] = v]
         IN  IF v # 0 THEN n ELSE AddCarry(n, j - 1)

\* Add's outer loop at byte i (1-based), over a private copy of a.
RECURSIVE AddLoop(_, _, _, _)
AddLoop(a, b, mask, i) ==
    IF i < 1 THEN a
    ELSE LET prev == a[i]
             v    == (a[i] + ByteAnd(b[i], mask[i])) % 256
             a1   == [a EXCEPT ![i] = v]
             a2   == IF v < prev /\ i > 1 THEN AddCarry(a1, i - 1) ELSE a1
         IN  AddLoop(a2, b, mask, i - 1)

Add(a0, b0, mask) ==
    LET a == IP(a0)
        b == IP(b0)
    IN  IF Len(mask) > Len(a) \/ Len(mask) > Len(b) THEN PANIC
        ELSE AddLoop(a, b, mask, Len(mask))

\* Substract's inner loop: the borrow ripples from byte j leftward.
RECURSIVE SubBorrow(_, _)
SubBorrow(a, j) ==
    IF j < 1 THEN a
    ELSE LET v == (a[j] + 255) % 256
             n == [a EXCEPT ![j] = v]
         IN  IF v # 255 THEN n ELSE SubBorrow(n, j - 1)

RECURSIVE SubLoop(_, _, _, _)
SubLoop(a, b, mask, i) ==
    IF i < 1 THEN a
    ELSE LET prev == a[i]
             v    == (a[i] + 256 - ByteAnd(b[i], mask[i])) % 256
             a1   == [a EXCEPT ![i] = v]
             a2   == IF v > prev /\ i > 1 THEN SubBorrow(a1, i - 1) ELSE a1
         IN  SubLoop(a2, b, mask, i - 1)

Substract(a0, b0, mask) ==
    LET a == IP(a0)
        b == IP(b0)
    IN  IF Len(mask) > Len(a) \/ Len(mask) > Len(b) THEN PANIC
        ELSE SubLoop(a, b, mask, Len(mask))

\* And with its result cut to the length of b.
AndTruncated(a0, b0) ==
    LET a == IP(a0)
        b == IP(b0)
    IN  IF IPSize(b) > Len(a) \/ IPSize(b) > Len(b) THEN PANIC
        ELSE [i \in 1..IPSize(b) |-> ByteAnd(a[i], b[i])]

\* And, Or and Xor: the first IPSize(b) bytes of a private copy of a are
\* combined with b's; the copy keeps a's length.  a[i] or b[i] beyond the
\* end of a slice panics.
And(a0, b0) ==
    LET a == IP(a0)
        b == IP(b0)
    IN  IF IPSize(b) > Len(a) \/ IPSize(b) > Len(b) THEN PANIC
        ELSE [i \in 1..Len(a) |-> IF i <= IPSize(b) THEN ByteAnd(a[i], b[i]) ELSE a[i]]

Or(a0, b0) ==
    LET a == IP(a0)
        b == IP(b0)
    IN  IF IPSize(b) > Len(a) \/ IPSize(b) > Len(b) THEN PANIC
        ELSE [i \in 1..Len(a) |-> IF i <= IPSize(b) THEN ByteOr(a[i], b[i]) ELSE a[i]]

Xor(a0, b0) ==
    LET a == IP(a0)
        b == IP(b0)
    IN  IF IPSize(b) > Len(a) \/ IPSize(b) > Len(b) THEN PANIC
        ELSE [i \in 1..Len(a) |-> IF i <= IPSize(b) THEN ByteXor(a[i], b[i]) ELSE a[i]]

----------------------------------------------------------------------------
(* net.IPNet, as ipcalc uses it: a record [IP, Mask].                      *)

NoNet == [IP |-> Nil, Mask |-> Nil]

\* net.CIDRMask(ones, bits): nil unless 0 <= ones <= bits and bits is 32 or 128.
CIDRMask(ones, bits) ==
    IF bits \notin {8 * IPv4len, 8 * IPv6len} \/ ones < 0 \/ ones > bits THEN Nil
    ELSE [i \in 1..(bits \div 8) |->
            IF ones >= 8 * i THEN 255
            ELSE IF ones <= 8 * (i - 1) THEN 0
            ELSE 256 - 2 ^ (8 * i - ones)]

\* net.IP.Mask: ip AND mask once both have one length, nil when they cannot.
IPMask(ip0, mask0) ==
    LET mask == IF Len(mask0) = IPv6len /\ Len(ip0) = IPv4len
                   /\ SubSeq(mask0, 1, 12) = Rep(12, 255)
                THEN SubSeq(mask0, 13, 16) ELSE mask0
        ip   == IF Len(mask) = IPv4len /\ IsV4InV6(ip0) THEN SubSeq(ip0, 13, 16) ELSE ip0
    IN  IF Len(ip) # Len(mask) THEN Nil
        ELSE [i \in 1..Len(ip) |-> ByteAnd(ip[i], mask[i])]

\* net's networkNumberAndMask: <<ip, mask>> of one length, <<Nil, Nil>> if none.
NetworkNumberAndMask(n) ==
    LET ip == IF To4(n.IP) # Nil THEN To4(n.IP) ELSE n.IP
    IN  IF Len(ip) \notin {IPv4len, IPv6len} THEN <<Nil, Nil>>
        ELSE IF Len(n.Mask) = IPv4len
             THEN (IF Len(ip) # IPv4len THEN <<Nil, Nil>> ELSE <<ip, n.Mask>>)
        ELSE IF Len(n.Mask) = IPv6len
             THEN (IF Len(ip) = IPv4len THEN <<ip, SubSeq(n.Mask, 13, 16)>> ELSE <<ip, n.Mask>>)
        ELSE <<Nil, Nil>>

\* net.IPNet.Contains.
IPNetContains(n, ip0) ==
    LET nn == NetworkNumberAndMask(n)[1]
        m  == NetworkNumberAndMask(n)[2]
        ip == IF To4(ip0) # Nil THEN To4(ip0) ELSE ip0
    IN  /\ Len(ip) = Len(nn)
        /\ \A i \in 1..Len(ip) : ByteAnd(nn[i], m[i]) = ByteAnd(ip[i], m[i])

----------------------------------------------------------------------------
(* package ipcalc: the functions on networks.                              *)

\* Broadcast reads n.IP and n.Mask as they are, over IPSize(n.IP) bytes.
Broadcast(n) ==
    IF IPSize(n.IP) > Len(n.IP) \/ IPSize(n.IP) > Len(n.Mask) THEN PANIC
    ELSE [i \in 1..IPSize(n.IP) |-> ByteOr(n.IP[i], ByteNot(n.Mask[i]))]

\* NextSubnet: a net.IPNet, PanicNet when Broadcast panics.
PanicNet == [IP |-> PANIC, Mask |-> PANIC]

NextSubnet(n) ==
    IF Broadcast(n) = PANIC THEN PanicNet
    ELSE [IP |-> NextIP(Broadcast(n)), Mask |-> n.Mask]

PrevSubnet(n) ==
    IF PrevIP(n.IP) = PANIC THEN PanicNet
    ELSE [IP |-> IPMask(PrevIP(n.IP), n.Mask), Mask |-> n.Mask]

\* Contains: "true", "false", or "panic"; && does not evaluate Broadcast(b)
\* when a does not contain b.IP.
Contains(a, b) ==
    IF ~IPNetContains(a, b.IP) THEN "false"
    ELSE IF Broadcast(b) = PANIC THEN "panic"
    ELSE IF IPNetContains(a, Broadcast(b)) THEN "true" ELSE "false"

----------------------------------------------------------------------------
(* Text.  A string is a sequence of one-character strings.  The texts of   *)
(* the model hold no ":", so net.ParseIP is modelled for dotted-decimal    *)
(* text only.                                                              *)

Digits == <<"0", "1", "2", "3", "4", "5", "6", "7", "8", "9">>

IsDigit(c) == \E d \in 1..10 : Digits[d] = c

DigitVal(c) == (CHOOSE d \in 1..10 : Digits[d] = c) - 1

\* strings.Split(s, sep) for a one-character sep: the pieces of s from
\* character i on, piece the characters of the piece under way.
RECURSIVE SplitFrom(_, _, _, _)
SplitFrom(s, sep, i, piece) ==
    IF i > Len(s) THEN <<piece>>
    ELSE IF s[i] = sep THEN <<piece>> \o SplitFrom(s, sep, i + 1, << >>)
    ELSE SplitFrom(s, sep, i + 1, Append(piece, s[i]))

Split(s, sep) == SplitFrom(s, sep, 1, << >>)

\* The value of a run of digits.
RECURSIVE DecVal(_)
DecVal(s) == IF s = << >> THEN 0 ELSE 10 * DecVal(SubSeq(s, 1, Len(s) - 1)) + DigitVal(s[Len(s)])

AllDigits(s) == s # << >> /\ \A i \in 1..Len(s) : IsDigit(s[i])

\* strconv.Atoi: <<TRUE, value>> for an optional sign and decimal digits,
\* <<FALSE, 0>> for anything else.
Atoi(s) ==
    IF s # << >> /\ s[1] \in {"+", "-"}
    THEN (IF AllDigits(Tail(s))
          THEN <<TRUE, IF s[1] = "-" THEN 0 - DecVal(Tail(s)) ELSE DecVal(Tail(s))>>
          ELSE <<FALSE, 0>>)
    ELSE IF AllDigits(s) THEN <<TRUE, DecVal(s)>> ELSE <<FALSE, 0>>

\* One field of a dotted-decimal address: one to three digits, no leading
\* zero, at most 255.
IsOctet(s) ==
    /\ AllDigits(s)
    /\ Len(s) <= 3
    /\ (Len(s) > 1 => s[1] # "0")
    /\ DecVal(s) <= 255

\* net.ParseIP on text without ":": the 16-byte form of a dotted-decimal
\* IPv4 address, nil for any other text.
ParseIP(s) ==
    LET f == Split(s, ".")
    IN  IF Len(f) = 4 /\ \A i \in 1..4 : IsOctet(f[i])
        THEN To16([i \in 1..4 |-> DecVal(f[i])])
        ELSE Nil

ParseMask(mask) == IP(ParseIP(mask))

\* A *net.ParseError, and the nil error.
ParseError(type, text) == [Type |-> type, Text |-> text]
NoError == ParseError("", << >>)
NoResult == [ip |-> Nil, mask |-> Nil, err |-> NoError]

\* ParseIPMask's branch for len(v) == 2: the mask of the text piece after
\* the "/", for an address ip.
ParseMaskPiece(ip, piece) ==
    LET size     == IPSize(ip) * 8
        wildcard == piece # << >> /\ piece[1] = "~"
        v1       == IF wildcard THEN Tail(piece) ELSE piece
        m0       == IF Atoi(v1)[1] THEN CIDRMask(Atoi(v1)[2], size) ELSE ParseMask(v1)
        mask     == IF wildcard THEN Complement(m0) ELSE m0
    IN  IF mask = Nil THEN [ip |-> Nil, mask |-> Nil, err |-> ParseError("Mask", v1)]
        ELSE [ip |-> ip, mask |-> mask, err |-> NoError]

\* (ParseIPMaskExtraIgnored: ParseIPMask without its len(v) > 2 test.)
ParseIPMaskExtraIgnored(addr) ==
    LET v  == Split(addr, "/")
        ip == ParseIP(v[1])
    IN  IF ip = Nil THEN [ip |-> Nil, mask |-> Nil, err |-> ParseError("IP address", v[1])]
        ELSE IF Len(v) >= 2 THEN ParseMaskPiece(ip, v[2])
        ELSE [ip |-> ip, mask |-> Nil, err |-> NoError]

ParseIPMask(addr) ==
    LET v  == Split(addr, "/")
        ip == ParseIP(v[1])
    IN  IF ip = Nil THEN [ip |-> Nil, mask |-> Nil, err |-> ParseError("IP address", v[1])]
        ELSE IF Len(v) > 2 THEN [ip |-> Nil, mask |-> Nil, err |-> ParseError("IP/Mask", addr)]
        ELSE IF Len(v) = 2 THEN ParseMaskPiece(ip, v[2])
        ELSE [ip |-> ip, mask |-> Nil, err |-> NoError]

----------------------------------------------------------------------------
(* package wildcard.  A Wildcard is a record of its three fields.          *)

PanicW == [ip |-> PANIC, bits |-> PANIC, mask |-> PANIC]
NoW == [ip |-> Nil, bits |-> Nil, mask |-> Nil]

New(ip0, wildcard) ==
    LET ip   == IP(ip0)
        mask == IP(Complement(wildcard))
        bits == And(ip, mask)
    IN  IF bits = PANIC THEN PanicW ELSE [ip |-> ip, bits |-> bits, mask |-> mask]

\* Wildcard.Wildcard: the wildcard mask of a Wildcard.
WildcardOf(v) == Complement(v.mask)

\* Wildcard.Matches: "true", "false", or "panic" when And panics.
Matches(v, ip) ==
    LET r == And(ip, v.mask)
    IN  IF r = PANIC THEN "panic" ELSE IF Equal(r, v.bits) THEN "true" ELSE "false"

First(v) == [ip |-> IP(v.bits), bits |-> IP(v.bits), mask |-> IP(v.mask)]

Last(v) ==
    LET ip == Or(v.bits, Complement(v.mask))
    IN  IF ip = PANIC THEN PanicW ELSE [ip |-> ip, bits |-> IP(v.bits), mask |-> IP(v.mask)]

\* Next's inner loop over the bits j..7 of one byte b under mask byte m:
\* <<the byte afterwards, whether Next returned from inside the loop>>.
RECURSIVE NextBits(_, _, _)
NextBits(m, b, j) ==
    IF j > 7 THEN <<b, FALSE>>
    ELSE IF bit(m, j) THEN NextBits(m, b, j + 1)
    ELSE IF ~bit(b, j) THEN <<b + 2 ^ j, TRUE>>
    ELSE NextBits(m, b - 2 ^ j, j + 1)

\* Next's outer loop from byte i (1-based) leftward.
RECURSIVE NextLoop(_, _, _)
NextLoop(ip, mask, i) ==
    IF i < 1 THEN ip
    ELSE LET r == NextBits(mask[i], ip[i], 0)
         IN  IF r[2] THEN [ip EXCEPT ![i] = r[1]]
             ELSE NextLoop([ip EXCEPT ![i] = r[1]], mask, i - 1)

\* Wildcard.Next: the cursor after the call (which is also what it returns).
Next(v) ==
    LET size == IPSize(v.ip)
    IN  IF size > Len(v.mask) \/ size > Len(v.ip) THEN PANIC
        ELSE NextLoop(v.ip, v.mask, size)

RECURSIVE PrevBits(_, _, _)
PrevBits(m, b, j) ==
    IF j > 7 THEN <<b, FALSE>>
    ELSE IF bit(m, j) THEN PrevBits(m, b, j + 1)
    ELSE IF bit(b, j) THEN <<b - 2 ^ j, TRUE>>
    ELSE PrevBits(m, b + 2 ^ j, j + 1)

RECURSIVE PrevLoop(_, _, _)
PrevLoop(ip, mask, i) ==
    IF i < 1 THEN ip
    ELSE LET r == PrevBits(mask[i], ip[i], 0)
         IN  IF r[2] THEN [ip EXCEPT ![i] = r[1]]
             ELSE PrevLoop([ip EXCEPT ![i] = r[1]], mask, i - 1)

\* Wildcard.Prev: the cursor after the call (which is also what it returns).
Prev(v) ==
    LET size == IPSize(v.ip)
    IN  IF size > Len(v.mask) \/ size > Len(v.ip) THEN PANIC
        ELSE PrevLoop(v.ip, v.mask, size)

\* findWildcard: the pair <<and, xor>>, PANIC when either panics.
findWildcard(a, b) ==
    IF a = PANIC \/ And(a, b) = PANIC \/ Xor(a, b) = PANIC THEN PANIC
    ELSE <<And(a, b), Xor(a, b)>>

\* FindWildcard's loop over extra, from the pair acc.
RECURSIVE FindWildcardLoop(_, _)
FindWildcardLoop(acc, extra) ==
    IF acc = PANIC THEN PANIC
    ELSE IF extra = << >> THEN acc
    ELSE FindWildcardLoop(findWildcard(acc[1], Head(extra)), Tail(extra))

FindWildcard(a, b, extra) ==
    LET acc == FindWildcardLoop(findWildcard(a, b), extra)
    IN  IF acc = PANIC THEN PanicW ELSE New(acc[1], acc[2])

----------------------------------------------------------------------------
(* Storage.  A slice field of a Wildcard points to a backing array; arrays  *)
(* are numbered in the order they are allocated, 0 standing for none.  Every *)
(* slice of this package starts at the head of its array, so two fields     *)
(* share storage exactly when they point to the same array.                 *)

NoArrays == [ip |-> 0, bits |-> 0, mask |-> 0]

\* New: ip is the copy ipcalc.IP makes, mask the copy ipcalc.IP makes of the
\* complement, bits the copy of ip that ipcalc.And makes and writes into:
\* three arrays allocated after the n there are.
NewArrays(n) == [ip |-> n + 1, bits |-> n + 3, mask |-> n + 2]

\* First with its three fields taken from the receiver's slices as they are.
FirstArraysShared(a, n) == [ip |-> a.bits, bits |-> a.bits, mask |-> a.mask]

\* First: each field is the result of a call of ipcalc.IP, whose CopyIP
\* appends to a nil slice and so allocates a new array.
FirstArrays(a, n) == [ip |-> n + 1, bits |-> n + 2, mask |-> n + 3]

\* Last: ip is the copy of bits that ipcalc.Or makes and writes into, bits
\* and mask are the copies ipcalc.IP makes.
LastArrays(a, n) == [ip |-> n + 1, bits |-> n + 2, mask |-> n + 3]

\* The number of arrays allocated for the fields of a.
Allocated(a) ==
    IF a.ip >= a.bits /\ a.ip >= a.mask THEN a.ip
    ELSE IF a.bits >= a.mask THEN a.bits ELSE a.mask

\* Next and Prev write the new cursor c into the array of the receiver's ip:
\* the Wildcard v with fields in arrays a, after array t was given content c.
Written(v, a, t, c) ==
    [ip   |-> IF a.ip = t THEN c ELSE v.ip,
     bits |-> IF a.bits = t THEN c ELSE v.bits,
     mask |-> IF a.mask = t THEN c ELSE v.mask]

----------------------------------------------------------------------------
(* The addresses the harnesses draw their inputs from.                     *)

\* An address of L bytes: a run of lead bytes, one pivot byte q, then n
\* bytes of fill.  With fill 255 (0) a carry (borrow) ripples through n bytes.
RunAddr(L, lead, q, n, fill) == Rep(L - n - 1, lead) \o <<q>> \o Rep(n, fill)

LeadBytes  == {0, 32, 255}
PivotBytes == {0, 1, 254, 255}
FillBytes  == {0, 255}

AddrsOfLen(L) ==
    { RunAddr(L, lead, q, n, fill) :
        lead \in LeadBytes, q \in PivotBytes, n \in 0..(L - 1), fill \in FillBytes }

\* 16-byte addresses at the two edges of ::ffff:0:0/96, the IPv4-mapped block.
EdgeAddrs ==
    { Rep(10, 0) \o <<255, 254, 255, 255, 255, 255>>,
      Rep(10, 0) \o <<255, 254, 0, 0, 0, 0>>,
      Rep(9, 0) \o <<1, 0, 0, 0, 0, 0, 0>>,
      Rep(10, 0) \o <<255, 255, 0, 0, 0, 0>>,
      Rep(10, 0) \o <<255, 255, 192, 0, 2, 1>> }

\* Every sample address; an IPv4 address appears in both of its forms.
Addrs ==
    AddrsOfLen(IPv4len) \cup AddrsOfLen(IPv6len) \cup EdgeAddrs
        \cup { To16(a) : a \in AddrsOfLen(IPv4len) }

\* Second operands of Add/Substract of canonical length L.
BSamples(L) ==
    { RunAddr(L, 0, q, n, fill) : q \in {1, 255}, n \in {0, 1, L - 1}, fill \in {0, 255} }
        \cup (IF L = IPv4len THEN {To16(<<0, 0, 1, 255>>)} ELSE {})

\* Masks of L bytes.
MSamples(L) == { Rep(L, 255), Rep(L - 1, 0) \o <<255>>, Rep(L - 2, 255) \o <<15, 0>> }

----------------------------------------------------------------------------
(* The arithmetic harness: a caller that chains calls on one address.      *)

\* The wildcard harness at rest.
WildIdle ==
    /\ wsrc = << >>
    /\ w = NoW
    /\ w2 = NoW
    /\ made = << >>
    /\ nw = <<0, 0>>
    /\ n2 = <<0, 0>>
    /\ seen = {}
    /\ was = Nil
    /\ ret = << >>
    /\ aw = NoArrays
    /\ aw2 = NoArrays

\* The parse harness at rest.
ParseIdle ==
    /\ psegs = << >>
    /\ ptext = << >>
    /\ pres = NoResult

\* The network harness at rest.
NetIdle ==
    /\ na = NoNet
    /\ nb = NoNet
    /\ nop = ""
    /\ nres = Nil

\* The arithmetic harness at rest.
ArithIdle ==
    /\ x = Nil
    /\ opb = Nil
    /\ opm = Nil
    /\ arg = Nil
    /\ cur = Nil
    /\ ops = << >>

InitStep ==
    /\ x \in Addrs
    /\ opb = Nil
    /\ opm = Nil
    /\ arg = Nil
    /\ cur = x
    /\ ops = << >>
    /\ WildIdle
    /\ NetIdle
    /\ ParseIdle

InitArith ==
    /\ x \in Addrs
    /\ opb \in BSamples(Len(IP(x)))
    /\ opm \in MSamples(Len(IP(x)))
    /\ arg = Nil
    /\ cur = x
    /\ ops = << >>
    /\ WildIdle
    /\ NetIdle
    /\ ParseIdle

\* A call is possible while the program has not panicked.
CanCall == Len(ops) < MaxOps /\ cur # PANIC

DoNextIP ==
    /\ CanCall
    /\ arg' = cur
    /\ cur' = NextIP(cur)
    /\ ops' = Append(ops, "NextIP")
    /\ UNCHANGED <<x, opb, opm, wild, nets, parse>>

DoPrevIP ==
    /\ CanCall
    /\ arg' = cur
    /\ cur' = PrevIP(cur)
    /\ ops' = Append(ops, "PrevIP")
    /\ UNCHANGED <<x, opb, opm, wild, nets, parse>>

DoAdd ==
    /\ CanCall
    /\ arg' = cur
    /\ cur' = Add(cur, opb, opm)
    /\ ops' = Append(ops, "Add")
    /\ UNCHANGED <<x, opb, opm, wild, nets, parse>>

DoSubstract ==
    /\ CanCall
    /\ arg' = cur
    /\ cur' = Substract(cur, opb, opm)
    /\ ops' = Append(ops, "Substract")
    /\ UNCHANGED <<x, opb, opm, wild, nets, parse>>

NextStep == DoNextIP \/ DoPrevIP

NextArith == DoAdd \/ DoSubstract

\* Operands of And, Or and Xor: 4-byte and 16-byte addresses, and IPv4
\* addresses in their 16-byte form.
BitAddrs ==
    { <<192, 0, 2, 1>>, <<0, 0, 0, 0>>, <<255, 255, 255, 255>>, <<63, 255, 253, 145>>,
      To16(<<192, 0, 15, 155>>), To16(<<0, 0, 0, 1>>),
      <<32, 1, 13, 184, 0, 9>> \o Rep(9, 0) \o <<174>>,
      <<32, 1, 13, 184, 0, 5>> \o Rep(8, 0) \o <<255, 1>>,
      Rep(16, 255), Rep(16, 0),
      Rep(10, 0) \o <<255, 254, 170, 85, 15, 240>>,
      <<1>> \o Rep(9, 0) \o <<255, 255, 192, 0, 2, 1>> }

InitBits ==
    /\ x \in BitAddrs
    /\ opb \in BitAddrs
    /\ opm = Nil
    /\ arg = Nil
    /\ cur = x
    /\ ops = << >>
    /\ WildIdle
    /\ NetIdle
    /\ ParseIdle

DoAnd ==
    /\ CanCall
    /\ arg' = cur
    /\ cur' = And(cur, opb)
    /\ ops' = Append(ops, "And")
    /\ UNCHANGED <<x, opb, opm, wild, nets, parse>>

DoOr ==
    /\ CanCall
    /\ arg' = cur
    /\ cur' = Or(cur, opb)
    /\ ops' = Append(ops, "Or")
    /\ UNCHANGED <<x, opb, opm, wild, nets, parse>>

DoXor ==
    /\ CanCall
    /\ arg' = cur
    /\ cur' = Xor(cur, opb)
    /\ ops' = Append(ops, "Xor")
    /\ UNCHANGED <<x, opb, opm, wild, nets, parse>>

NextBitwise == DoAnd \/ DoOr \/ DoXor

SpecBits == InitBits /\ [][NextBitwise]_vars

SpecStep == InitStep /\ [][NextStep]_vars

SpecArith == InitArith /\ [][NextArith]_vars

----------------------------------------------------------------------------
(* The wildcard harness: a caller that makes a Wildcard w, takes          *)
(* w2 = w.First() or w.Last(), and steps either with Next and Prev.        *)

WIPs4 == { <<192, 0, 2, 0>>, <<192, 0, 2, 129>>, <<192, 0, 2, 255>>,
           <<0, 0, 0, 0>>, <<255, 255, 255, 255>> }

WCards4 == { <<0, 0, 0, 0>>, <<0, 0, 0, 6>>, <<0, 0, 1, 128>>,
             <<128, 0, 0, 1>>, <<0, 0, 0, 1>> }

WIPs16 == { <<32, 1, 13, 184>> \o Rep(11, 0) \o <<255>>,
            Rep(10, 0) \o <<255, 254, 0, 0, 0, 0>>,
            Rep(10, 0) \o <<255, 255, 192, 0, 2, 129>>,
            <<1>> \o Rep(9, 0) \o <<255, 255, 192, 0, 2, 1>>,
            Rep(16, 255) }

WCards16 == { Rep(16, 0),
              Rep(11, 0) \o <<1, 0, 0, 0, 0>>,
              Rep(15, 0) \o <<6>>,
              <<1>> \o Rep(15, 0),
              Rep(10, 255) \o <<0, 0, 0, 0, 0, 6>> }

\* Arguments of New: <<ip, wildcard>>, of equal length or, as ParseIPMask
\* yields for IPv4 text, a 16-byte IPv4 address with a 4-byte mask.
NewArgs ==
    (WIPs4 \X WCards4) \cup (WIPs16 \X WCards16)
        \cup ({ To16(a) : a \in WIPs4 } \X WCards4)

FWIPs4 == { <<192, 0, 2, 1>>, <<192, 0, 2, 255>>, <<192, 0, 2, 134>>,
            <<192, 0, 6, 6>>, <<192, 0, 254, 70>>, <<0, 0, 0, 0>> }

FWIPs16 == { <<32, 1, 13, 176>> \o Rep(11, 0) \o <<1>>,
             <<32, 2>> \o Rep(10, 0) \o <<222, 173, 190, 239>>,
             <<1>> \o Rep(9, 0) \o <<255, 255, 0, 0, 0, 1>>,
             <<2>> \o Rep(9, 0) \o <<255, 255, 0, 0, 0, 1>> }

\* Arguments of FindWildcard: a, b and up to MaxExtra more, of one length.
FindArgs ==
    UNION { [1..n -> FWIPs4] \cup [1..n -> FWIPs16] : n \in 2..(2 + MaxExtra) }

InitWild ==
    /\ ArithIdle
    /\ NetIdle
    /\ ParseIdle
    /\ wsrc \in NewArgs
    /\ w = NoW
    /\ w2 = NoW
    /\ made = << >>
    /\ nw = <<0, 0>>
    /\ n2 = <<0, 0>>
    /\ seen = {}
    /\ was = Nil
    /\ ret = << >>
    /\ aw = NoArrays
    /\ aw2 = NoArrays

InitFind ==
    /\ ArithIdle
    /\ NetIdle
    /\ ParseIdle
    /\ wsrc \in FindArgs
    /\ w = NoW
    /\ w2 = NoW
    /\ made = << >>
    /\ nw = <<0, 0>>
    /\ n2 = <<0, 0>>
    /\ seen = {}
    /\ was = Nil
    /\ ret = << >>
    /\ aw = NoArrays
    /\ aw2 = NoArrays

\* A panic ends the program.
Crashed == w = PanicW \/ w2 = PanicW

DoNew ==
    /\ made = << >>
    /\ w' = New(wsrc[1], wsrc[2])
    /\ aw' = NewArrays(0)
    /\ made' = <<"New">>
    /\ UNCHANGED <<arith, nets, parse, wsrc, w2, nw, n2, seen, was, ret, aw2>>

DoFindWildcard ==
    /\ made = << >>
    /\ w' = FindWildcard(wsrc[1], wsrc[2], SubSeq(wsrc, 3, Len(wsrc)))
    /\ aw' = NewArrays(0)
    /\ made' = <<"FindWildcard">>
    /\ UNCHANGED <<arith, nets, parse, wsrc, w2, nw, n2, seen, was, ret, aw2>>

DoFirst ==
    /\ Len(made) = 1
    /\ ~Crashed
    /\ w2' = First(w)
    /\ aw2' = FirstArrays(aw, Allocated(aw))
    /\ made' = Append(made, "First")
    /\ UNCHANGED <<arith, nets, parse, wsrc, w, nw, n2, seen, was, ret, aw>>

DoLast ==
    /\ Len(made) = 1
    /\ ~Crashed
    /\ w2' = Last(w)
    /\ aw2' = LastArrays(aw, Allocated(aw))
    /\ made' = Append(made, "Last")
    /\ UNCHANGED <<arith, nets, parse, wsrc, w, nw, n2, seen, was, ret, aw>>

\* w.Next() or w.Prev(): the cursor of w is overwritten in place, and with it
\* every field of w and of w2 that shares its array.
StepRecv(method, c) ==
    /\ Len(made) >= 1
    /\ ~Crashed
    /\ nw[1] + nw[2] < MaxRecvSteps
    /\ was' = w.ip
    /\ w' = IF c = PANIC THEN PanicW ELSE Written(w, aw, aw.ip, c)
    /\ w2' = IF c = PANIC THEN w2 ELSE Written(w2, aw2, aw.ip, c)
    /\ nw' = IF method = "Next" THEN <<nw[1] + 1, nw[2]>> ELSE <<nw[1], nw[2] + 1>>
    /\ ret' = <<method, "w", c>>
    /\ UNCHANGED <<arith, nets, parse, wsrc, made, n2, seen, aw, aw2>>

\* w2.Next() or w2.Prev().
StepMade(method, c) ==
    /\ Len(made) = 2
    /\ ~Crashed
    /\ n2[1] + n2[2] < MaxSteps
    /\ was' = w2.ip
    /\ w2' = IF c = PANIC THEN PanicW ELSE Written(w2, aw2, aw2.ip, c)
    /\ w' = IF c = PANIC THEN w ELSE Written(w, aw, aw2.ip, c)
    /\ n2' = IF method = "Next" THEN <<n2[1] + 1, n2[2]>> ELSE <<n2[1], n2[2] + 1>>
    /\ seen' = seen \cup {c}
    /\ ret' = <<method, "w2", c>>
    /\ UNCHANGED <<arith, nets, parse, wsrc, made, nw, aw, aw2>>

DoNext == StepRecv("Next", Next(w)) \/ StepMade("Next", Next(w2))

DoPrev == StepRecv("Prev", Prev(w)) \/ StepMade("Prev", Prev(w2))

NextWild == DoNew \/ DoFirst \/ DoLast \/ DoNext \/ DoPrev

NextFind == DoFindWildcard

SpecWild == InitWild /\ [][NextWild]_vars

SpecFind == InitFind /\ [][NextFind]_vars

----------------------------------------------------------------------------
(* The network harness: a caller with two networks of one family.          *)

NetIPs4 == { <<10, 0, 0, 0>>, <<10, 0, 0, 5>>, <<10, 0, 0, 252>>, <<10, 0, 0, 254>>,
             <<10, 0, 1, 0>>, <<192, 0, 2, 0>>, <<255, 255, 255, 0>>, <<0, 0, 0, 0>> }

NetOnes4 == {0, 8, 23, 24, 30, 32}

NetIPs16 == { <<32, 1, 13, 184, 0, 10>> \o Rep(10, 0),
              <<32, 1, 13, 184, 0, 10, 0, 1>> \o Rep(8, 0),
              <<32, 1, 13, 184, 0, 11, 0, 1>> \o Rep(8, 0),
              <<32, 1, 13, 184, 0, 10>> \o Rep(9, 0) \o <<5>>,
              Rep(14, 255) \o <<0, 0>>,
              Rep(10, 0) \o <<255, 254, 0, 0, 0, 0>> }

NetOnes16 == {0, 48, 64, 96, 112, 128}

\* IPv4 networks, the address in its 4-byte form or (two of them) in its
\* 16-byte form, and IPv6 networks; every mask is a CIDR mask.
Nets4 ==
    { [IP |-> a, Mask |-> CIDRMask(n, 32)] : a \in NetIPs4, n \in NetOnes4 }
        \cup { [IP |-> To16(a), Mask |-> CIDRMask(n, 32)] :
                  a \in {<<10, 0, 0, 0>>, <<10, 0, 0, 254>>}, n \in NetOnes4 }

Nets16 == { [IP |-> a, Mask |-> CIDRMask(n, 128)] : a \in NetIPs16, n \in NetOnes16 }

InitNet ==
    /\ ArithIdle
    /\ WildIdle
    /\ ParseIdle
    /\ \E pair \in (Nets4 \X Nets4) \cup (Nets16 \X Nets16) :
          /\ na = pair[1]
          /\ nb = pair[2]
    /\ nop = ""
    /\ nres = Nil

DoContains ==
    /\ nop = ""
    /\ nop' = "Contains"
    /\ nres' = Contains(na, nb)
    /\ UNCHANGED <<arith, wild, parse, na, nb>>

DoBroadcast ==
    /\ nop = ""
    /\ nop' = "Broadcast"
    /\ nres' = Broadcast(nb)
    /\ UNCHANGED <<arith, wild, parse, na, nb>>

DoNextSubnet ==
    /\ nop = ""
    /\ nop' = "NextSubnet"
    /\ nres' = NextSubnet(nb)
    /\ UNCHANGED <<arith, wild, parse, na, nb>>

DoPrevSubnet ==
    /\ nop = ""
    /\ nop' = "PrevSubnet"
    /\ nres' = PrevSubnet(nb)
    /\ UNCHANGED <<arith, wild, parse, na, nb>>

\* PrevSubnet(NextSubnet(nb)): the caller steps back from the subnet it got.
DoPrevOfNext ==
    /\ nop = "NextSubnet"
    /\ nres # PanicNet
    /\ nop' = "NextSubnet.PrevSubnet"
    /\ nres' = PrevSubnet(nres)
    /\ UNCHANGED <<arith, wild, parse, na, nb>>

\* NextSubnet(PrevSubnet(nb)).
DoNextOfPrev ==
    /\ nop = "PrevSubnet"
    /\ nres # PanicNet
    /\ nop' = "PrevSubnet.NextSubnet"
    /\ nres' = NextSubnet(nres)
    /\ UNCHANGED <<arith, wild, parse, na, nb>>

NextNet ==
    \/ DoContains
    \/ DoBroadcast
    \/ DoNextSubnet
    \/ DoPrevSubnet
    \/ DoPrevOfNext
    \/ DoNextOfPrev

SpecNet == InitNet /\ [][NextNet]_vars

----------------------------------------------------------------------------
(* The parse harness: a caller that joins pieces of text with "/" and      *)
(* gives the text to ParseIPMask.                                          *)

\* Address texts that are dotted-decimal IPv4 addresses, and that are not.
GoodAddrTexts ==
    { <<"1", "9", "2", ".", "0", ".", "2", ".", "1", "0">>,
      <<"0", ".", "0", ".", "0", ".", "0">>,
      <<"2", "5", "5", ".", "2", "5", "5", ".", "2", "5", "5", ".", "2", "5", "5">> }

BadAddrTexts ==
    { <<"f", "o", "o">>,
      <<"2", "5", "6", ".", "0", ".", "0", ".", "1">>,
      <<"1", ".", "2", ".", "3">>,
      << >>,
      <<"1", ".", "2", ".", "3", ".", "4", ".", "5">>,
      <<"1", ".", ".", "2", ".", "3">> }

\* Mask texts that are a prefix length of at most 32 or a literal mask,
\* with or without a leading "~", and that are not.
GoodMaskTexts ==
    { <<"2", "4">>,
      <<"0">>,
      <<"3", "2">>,
      <<"+", "8">>,
      <<"2", "5", "5", ".", "2", "5", "5", ".", "2", "5", "5", ".", "0">>,
      <<"~", "1", "2">>,
      <<"~", "2", "5", "5", ".", "2", "4", "0", ".", "0", ".", "0">>,
      <<"~", "0">> }

BadMaskTexts ==
    { <<"3", "3">>,
      <<"-", "1">>,
      <<"f", "o", "o">>,
      << >>,
      <<"~">>,
      <<"~", "f", "o", "o">>,
      <<"1", ".", "2", ".", "3">>,
      <<"~", "3", "3">>,
      <<"2", "x">> }

\* Texts of the pieces after the second "/".
MoreTexts ==
    { <<"1">>,
      << >>,
      <<"2", "4">> }

\* The pieces of an input: an address, then a mask, then more.
PieceSeqs ==
    UNION { { q \in [1..n -> GoodAddrTexts \cup BadAddrTexts \cup GoodMaskTexts
                              \cup BadMaskTexts \cup MoreTexts] :
                /\ q[1] \in GoodAddrTexts \cup BadAddrTexts
                /\ n >= 2 => q[2] \in GoodMaskTexts \cup BadMaskTexts
                /\ \A i \in 3..n : q[i] \in MoreTexts } : n \in 1..MaxPieces }

\* strings.Join(q, "/").
RECURSIVE Join(_)
Join(q) == IF Len(q) = 1 THEN q[1] ELSE q[1] \o <<"/">> \o Join(Tail(q))

InitParse ==
    /\ ArithIdle
    /\ WildIdle
    /\ NetIdle
    /\ psegs \in PieceSeqs
    /\ ptext = Join(psegs)
    /\ pres = NoResult

\* pres is NoResult until the call: ParseIPMask returns an ip or an error.
DoParseIPMask ==
    /\ psegs # << >>
    /\ pres = NoResult
    /\ pres' = ParseIPMask(ptext)
    /\ UNCHANGED <<arith, wild, nets, psegs, ptext>>

NextParse == DoParseIPMask

SpecParse == InitParse /\ [][NextParse]_vars

----------------------------------------------------------------------------
(* Big-endian unsigned arithmetic modulo 2^(8L), byte by byte.             *)

\* a + d from byte i leftward, c the carry into byte i, acc the bytes right of i.
RECURSIVE RefAddFrom(_, _, _, _, _)
RefAddFrom(a, d, i, c, acc) ==
    IF i < 1 THEN acc
    ELSE RefAddFrom(a, d, i - 1, (a[i] + d[i] + c) \div 256, <<(a[i] + d[i] + c) % 256>> \o acc)

RefAdd(a, d) == RefAddFrom(a, d, Len(a), 0, << >>)

\* a - d from byte i leftward, c the borrow out of byte i + 1.
RECURSIVE RefSubFrom(_, _, _, _, _)
RefSubFrom(a, d, i, c, acc) ==
    IF i < 1 THEN acc
    ELSE RefSubFrom(a, d, i - 1, IF a[i] - d[i] - c < 0 THEN 1 ELSE 0,
                    <<(a[i] - d[i] - c + 256) % 256>> \o acc)

RefSub(a, d) == RefSubFrom(a, d, Len(a), 0, << >>)

One(L) == Rep(L - 1, 0) \o <<1>>

Masked(b, m) == [i \in 1..Len(m) |-> ByteAnd(b[i], m[i])]

LastOp == IF ops = << >> THEN "" ELSE ops[Len(ops)]

----------------------------------------------------------------------------
(* What the wildcard claims speak of, stated on bits.                      *)

\* The bit positions <<byte, bit>> set in a byte sequence.
SetBits(m) == { q \in (1..Len(m)) \X (0..7) : bit(m[q[1]], q[2]) }

\* The value of a set of bits of byte i.
RECURSIVE BitSum(_, _, _)
BitSum(S, i, j) ==
    IF j > 7 THEN 0 ELSE (IF <<i, j>> \in S THEN 2 ^ j ELSE 0) + BitSum(S, i, j + 1)

\* x AND mask = bits, byte by byte, for sequences of one length.
MatchesBits(v, a) ==
    /\ Len(a) = Len(v.mask)
    /\ Len(a) = Len(v.bits)
    /\ \A i \in 1..Len(a) : ByteAnd(a[i], v.mask[i]) = v.bits[i]

\* A Wildcard whose three fields have one length, 4 or 16.
WellFormed(v) ==
    /\ Len(v.ip) \in {IPv4len, IPv6len}
    /\ Len(v.bits) = Len(v.ip)
    /\ Len(v.mask) = Len(v.ip)

\* The don't-care bits of a well-formed Wildcard, and how many there are.
DontCare(v) == SetBits(Complement(v.mask))

\* A Wildcard small enough to list every address it matches.
Small(v) == WellFormed(v) /\ Cardinality(DontCare(v)) <= 4

\* Every address matching a small Wildcard: bits plus any set of don't-care bits.
MatchSet(v) ==
    { [i \in 1..Len(v.bits) |-> v.bits[i] + BitSum(S, i, 0)] : S \in SUBSET DontCare(v) }

\* a < b as big-endian unsigned integers of one length.
Less(a, b) ==
    \E i \in 1..Len(a) : a[i] < b[i] /\ \A h \in 1..(i - 1) : a[h] = b[h]

Lowest(S) == CHOOSE a \in S : \A b \in S : a = b \/ Less(a, b)
Highest(S) == CHOOSE a \in S : \A b \in S : a = b \/ Less(b, a)

\* The matching address after c in address order, the lowest one after the highest.
After(v, c) ==
    LET up == { a \in MatchSet(v) : Less(c, a) }
    IN  IF up = {} THEN Lowest(MatchSet(v)) ELSE Lowest(up)

\* The matching address before c in address order, the highest one before the lowest.
Before(v, c) ==
    LET down == { a \in MatchSet(v) : Less(a, c) }
    IN  IF down = {} THEN Highest(MatchSet(v)) ELSE Highest(down)

----------------------------------------------------------------------------
\* C1: the Wildcard that FindWildcard(a, b, extra...) returns for two or more
\* addresses of one byte length matches every one of them.
FindWildcardMatchesAll ==
    made = <<"FindWildcard">> => \A i \in 1..Len(wsrc) : Matches(w, wsrc[i]) = "true"

\* C2: for w = New(ip, wildcard) with ip and wildcard of one length, w matches
\* w.First().IP() and w.Last().IP(); First has every don't-care bit 0, Last has
\* every don't-care bit 1, and both have ip's care bits.
NewArgsSameLength == Len(wsrc[1]) = Len(wsrc[2])

FirstLastMatch ==
    (made # << >> /\ NewArgsSameLength /\ nw = <<0, 0>> /\ n2 = <<0, 0>>) =>
        /\ w # PanicW
        /\ made = <<"New", "First">> =>
              /\ Matches(w, w2.ip) = "true"
              /\ Equal(w2.ip, [i \in 1..Len(wsrc[1]) |->
                                  ByteAnd(wsrc[1][i], ByteNot(wsrc[2][i]))])
        /\ made = <<"New", "Last">> =>
              /\ w2 # PanicW
              /\ Matches(w, w2.ip) = "true"
              /\ Equal(w2.ip, [i \in 1..Len(wsrc[1]) |->
                                  ByteOr(wsrc[1][i], wsrc[2][i])])

\* C3: for a Wildcard with k don't-care bits, Next called repeatedly from
\* First() comes back to First()'s address after exactly 2^k calls and not
\* earlier, and returns every matching address exactly once on the way.
NextCycles ==
    (made = <<"New", "First">> /\ w2 # PanicW /\ Small(First(w)) /\ n2[2] = 0) =>
        LET n == n2[1]
            k == Cardinality(DontCare(First(w)))
        IN  /\ (0 < n /\ n < 2 ^ k) => w2.ip # First(w).ip
            /\ n = 2 ^ k => (w2.ip = First(w).ip /\ seen = MatchSet(First(w)))
            /\ n <= 2 ^ k => Cardinality(seen) = n

\* C4: from a cursor that matches the Wildcard, Next sets and returns the
\* smallest matching address above the cursor (the lowest matching address
\* from the highest), Prev the largest matching address below it (the
\* highest from the lowest); the cursor's care bits, bits and mask stay.
Stepped == IF ret # << >> /\ ret[2] = "w2" THEN w2 ELSE w

StepsInOrder ==
    (ret # << >> /\ ~Crashed /\ Small(Stepped) /\ MatchesBits(Stepped, was)) =>
        /\ ret[1] = "Next" => (ret[3] = After(Stepped, was) /\ Stepped.ip = ret[3])
        /\ ret[1] = "Prev" => (ret[3] = Before(Stepped, was) /\ Stepped.ip = ret[3])
        /\ MatchesBits(Stepped, Stepped.ip)

----------------------------------------------------------------------------
\* The three fields of v have the length of the canonical form of the address
\* given to New, bits is ip AND mask, and Wildcard() is the mask given to New.
KeepsShape(v) ==
    /\ v # PanicW
    /\ Len(v.ip) = Len(IP(wsrc[1]))
    /\ Len(v.bits) = Len(v.ip)
    /\ Len(v.mask) = Len(v.ip)
    /\ v.bits = [i \in 1..Len(v.ip) |-> ByteAnd(v.ip[i], v.mask[i])]
    /\ WildcardOf(v) = wsrc[2]

\* C12: every Wildcard made by New, First or Last from an address and a
\* wildcard mask of one length (4 bytes, or 16 bytes of any values), also after
\* any Next and Prev calls, has ip, bits and mask of the canonical length of
\* the address, bits = ip AND mask, and Wildcard() equal to the mask supplied.
WildcardKeepsShape ==
    (made # << >> /\ made[1] = "New" /\ NewArgsSameLength) =>
        /\ KeepsShape(w)
        /\ Len(made) = 2 => KeepsShape(w2)

----------------------------------------------------------------------------
\* Bit j of the result of the last bitwise call, from bits p and q of its operands.
BitOf(op, p, q) ==
    IF op = "And" THEN p /\ q
    ELSE IF op = "Or" THEN p \/ q
    ELSE p # q

\* r[i] = a[i] op b[i], bit by bit.
ByteIsOp(op, r, a, b, i) ==
    \A j \in 0..7 : bit(r[i], j) <=> BitOf(op, bit(a[i], j), bit(b[i], j))

IsBitwise == LastOp \in {"And", "Or", "Xor"}

\* C13 as stated: And, Or and Xor work bytewise over the canonical length of
\* b and the result has b's length, cut to b's 4 bytes when a's canonical
\* length is 16.
BitwiseTakesSecondLength ==
    (IsBitwise /\ Len(IP(arg)) >= Len(IP(opb))) =>
        /\ cur # PANIC
        /\ Len(cur) = Len(IP(opb))
        /\ \A i \in 1..Len(IP(opb)) : ByteIsOp(LastOp, cur, IP(arg), IP(opb), i)

\* C13, amended: And, Or and Xor combine the first len(b) bytes of the
\* canonical a with the canonical b and return a result of a's canonical
\* length, whose bytes beyond len(b) are a's own; when a's canonical length is
\* shorter than b's the call panics.
BitwiseKeepsFirstLength ==
    IsBitwise =>
        IF Len(IP(arg)) < Len(IP(opb)) THEN cur = PANIC
        ELSE /\ cur # PANIC
             /\ Len(cur) = Len(IP(arg))
             /\ \A i \in 1..Len(IP(opb)) : ByteIsOp(LastOp, cur, IP(arg), IP(opb), i)
             /\ \A i \in (Len(IP(opb)) + 1)..Len(cur) : cur[i] = IP(arg)[i]

\* And of a 16-byte address with a 4-byte one has returned 16 bytes, the last
\* twelve untouched.
LongerFirstWitness ==
    /\ ops = <<"And">>
    /\ x = Rep(IPv6len, 255)
    /\ opb = <<192, 0, 2, 1>>
    /\ cur = <<192, 0, 2, 1>> \o Rep(12, 255)

----------------------------------------------------------------------------
\* C5: for a, b and mask of the same canonical length L, Add(a, b, mask) is
\* (a + (b AND mask)) mod 2^(8L) and Substract(a, b, mask) is
\* (a - (b AND mask)) mod 2^(8L), as big-endian unsigned integers: carries
\* and borrows ripple through any number of bytes and wrap past the first.
SameLength == Len(IP(arg)) = Len(opm) /\ Len(IP(opb)) = Len(opm)

AddIsModularSum ==
    /\ (LastOp = "Add" /\ SameLength) => cur = RefAdd(IP(arg), Masked(IP(opb), opm))
    /\ (LastOp = "Substract" /\ SameLength) => cur = RefSub(IP(arg), Masked(IP(opb), opm))

\* A sum whose carry ripples through all 16 bytes and wraps to zero.
AddWrapsWitness ==
    /\ ops = <<"Add">>
    /\ x = Rep(IPv6len, 255)
    /\ opb = One(IPv6len)
    /\ opm = Rep(IPv6len, 255)
    /\ cur = Rep(IPv6len, 0)

\* C6: Substract(Add(a, b, m), b, m) = a for a, b, m of the same canonical
\* length, also when the addition wraps.
SubstractUndoesAdd ==
    (ops = <<"Add", "Substract">> /\ Len(IP(x)) = Len(opm) /\ Len(IP(opb)) = Len(opm))
        => Equal(cur, x)

\* C7: NextIP of the all-0xFF address is the all-zero address, PrevIP of the
\* all-zero address is the all-0xFF address, and otherwise NextIP/PrevIP is
\* the address plus/minus one as a big-endian integer of its canonical length.
StepIsPlusMinusOne ==
    /\ \A L \in {IPv4len, IPv6len} :
          /\ (LastOp = "NextIP" /\ arg = Rep(L, 255)) => cur = Rep(L, 0)
          /\ (LastOp = "PrevIP" /\ arg = Rep(L, 0)) => cur = Rep(L, 255)
    /\ LastOp = "NextIP" => cur = RefAdd(IP(arg), One(Len(IP(arg))))
    /\ LastOp = "PrevIP" => cur = RefSub(IP(arg), One(Len(IP(arg))))

\* NextIP has wrapped the largest 16-byte address to zero.
StepWrapsWitness ==
    /\ ops = <<"NextIP">>
    /\ x = Rep(IPv6len, 255)
    /\ cur = Rep(IPv6len, 0)

\* C8: PrevIP(NextIP(x)) = x and NextIP(PrevIP(x)) = x for every address x
\* of 4 or 16 bytes.
StepRoundTrip ==
    (ops = <<"NextIP", "PrevIP">> \/ ops = <<"PrevIP", "NextIP">>) => Equal(cur, x)

----------------------------------------------------------------------------
(* What the network claims speak of, on addresses in canonical form.       *)

\* The lowest and the highest address of the block of n.
BaseOf(n) == [i \in 1..Len(n.Mask) |-> ByteAnd(IP(n.IP)[i], n.Mask[i])]
TopOf(n) == [i \in 1..Len(n.Mask) |-> ByteOr(IP(n.IP)[i], ByteNot(n.Mask[i]))]

\* (a AND n.Mask) = (n.IP AND n.Mask), byte by byte.
InBlock(n, a) ==
    /\ Len(a) = Len(n.Mask)
    /\ \A i \in 1..Len(a) : ByteAnd(a[i], n.Mask[i]) = ByteAnd(IP(n.IP)[i], n.Mask[i])

\* Under a contiguous mask the block of b is the interval from BaseOf(b) to
\* TopOf(b) and the block of a is an interval too, so a holds every address
\* of b exactly when it holds both ends.
WhollyContains(a, b) == InBlock(a, BaseOf(b)) /\ InBlock(a, TopOf(b))

\* C10: for networks a and b of one family with contiguous masks,
\* Contains(a, b) is true exactly when every address of b's block is in a's
\* block, whatever the host bits of b.IP.  It is stated here for addresses
\* held in their canonical length, the case that needs no normalizing.
ContainsIsWhole ==
    (nop = "Contains" /\ IP(na.IP) = na.IP /\ IP(nb.IP) = nb.IP) =>
        ((nres = "true") <=> WhollyContains(na, nb))

\* The base of the block a net.IPNet r denotes, r.IP.Mask(r.Mask); Nil when
\* the lengths of r.IP and r.Mask do not go together.
BlockBase(r) == IF r = PanicNet THEN Nil ELSE IPMask(r.IP, r.Mask)

\* The bases of the blocks next above and next below the block of n, modulo
\* the size of the address space.
BaseAbove(n) == RefAdd(TopOf(n), One(Len(n.Mask)))
BaseBelow(n) == Masked(RefSub(BaseOf(n), One(Len(n.Mask))), n.Mask)

\* C11: for a network n with a contiguous mask, NextSubnet(n) and
\* PrevSubnet(n) keep n's mask; NextSubnet's address is the base of the block
\* next above the block containing n.IP and PrevSubnet's the base of the block
\* next below it, wrapping at the ends of the address space, and
\* PrevSubnet(NextSubnet(n)) and NextSubnet(PrevSubnet(n)) denote n's block.
\* Stated for n.IP held in its canonical length; addresses are compared as
\* net.IP.Equal compares them.
SubnetsAdjacent ==
    (IP(nb.IP) = nb.IP /\ nop \notin {"", "Contains", "Broadcast"}) =>
        /\ nres # PanicNet
        /\ nres.Mask = nb.Mask
        /\ nop = "NextSubnet" => Equal(nres.IP, BaseAbove(nb))
        /\ nop = "PrevSubnet" => Equal(nres.IP, BaseBelow(nb))
        /\ nop \in {"NextSubnet.PrevSubnet", "PrevSubnet.NextSubnet"} =>
              Equal(BlockBase(nres), BaseOf(nb))

\* The network n with its address in canonical form.
Canonical(n) == [n EXCEPT !.IP = IP(n.IP)]

\* C14: an operation normalizes its address operands first, so its result is
\* the same for an IPv4 operand of 4 bytes and for its 16-byte IPv4-mapped
\* form; here for Broadcast and NextSubnet on a network with a 4-byte mask,
\* where Broadcast(n) is n.IP OR NOT n.Mask in either form.
SameInBothForms ==
    Len(nb.Mask) = IPv4len =>
        /\ nop = "Broadcast" => (nres = Broadcast(Canonical(nb)) /\ nres = TopOf(nb))
        /\ nop = "NextSubnet" => nres = NextSubnet(Canonical(nb))

----------------------------------------------------------------------------
\* C15: First and Last leave the receiver as it was and return a Wildcard
\* that shares no storage with it: once w2 = w.First() or w2 = w.Last()
\* exists, a Next or Prev call on w2 leaves w's ip, bits and mask unchanged
\* and a Next or Prev call on w leaves w2's ip, bits and mask unchanged.
FirstLastIndependent ==
    [][ /\ (Len(made) = 1 /\ Len(made') = 2) => w' = w
        /\ (Len(made) = 2 /\ n2' # n2) => w' = w
        /\ (Len(made) = 2 /\ nw' # nw) => w2' = w2 ]_vars

\* After w2 = w.First(), w2 was stepped off its first address and then w was
\* stepped too; each moved, and the bits of both are still the same.
IndependentWitness ==
    /\ made = <<"New", "First">>
    /\ ~Crashed
    /\ n2[1] > 0
    /\ w2.ip # w2.bits
    /\ ret # << >>
    /\ ret[2] = "w"
    /\ ret[3] # was
    /\ w.ip # w2.ip
    /\ w.bits = w2.bits

----------------------------------------------------------------------------
(* What the parse claims speak of.                                         *)

Parsed == psegs # << >> /\ pres # NoResult

\* The mask text as the caller wrote it, less a leading "~".
Untilded(piece) == IF piece # << >> /\ piece[1] = "~" THEN Tail(piece) ELSE piece

\* The input after the address piece, from the first "/" on and after it.
SuffixFromSlash == SubSeq(ptext, Len(psegs[1]) + 1, Len(ptext))
SuffixAfterSlash == SubSeq(ptext, Len(psegs[1]) + 2, Len(ptext))

\* C9, as claimed: ParseIPMask reports two error kinds only, address syntax
\* and mask syntax; a valid address followed by more than one "/" fails with
\* a mask-syntax error whose text is the whole suffix after the address; a
\* bad mask piece fails with a mask-syntax error carrying the mask text; an
\* error comes with no ip and no mask.
ParseErrorsTwoKinds ==
    Parsed =>
        /\ pres.err.Type \in {"", "IP address", "Mask"}
        /\ (Len(psegs) > 2 /\ psegs[1] \in GoodAddrTexts) =>
              /\ pres.err.Type = "Mask"
              /\ pres.err.Text \in {SuffixFromSlash, SuffixAfterSlash}
        /\ (Len(psegs) = 2 /\ psegs[1] \in GoodAddrTexts /\ psegs[2] \in BadMaskTexts) =>
              /\ pres.err.Type = "Mask"
              /\ pres.err.Text \in {psegs[2], Untilded(psegs[2])}
        /\ pres.err # NoError => (pres.ip = Nil /\ pres.mask = Nil)

\* C9, amended: ParseIPMask reports three error kinds, told apart by the
\* error's Type: "IP address" with the address piece as text when the piece
\* before the first "/" is no address; "IP/Mask" with the whole input as
\* text when a valid address is followed by more than one "/"; "Mask" with
\* the mask piece less a leading "~" as text when the one mask piece is
\* neither a prefix length the family allows nor a literal mask.  An error
\* comes with no ip and no mask, and any other input parses without error.
ParseErrorsThreeKinds ==
    Parsed =>
        /\ pres.err.Type \in {"", "IP address", "IP/Mask", "Mask"}
        /\ psegs[1] \in BadAddrTexts => pres.err = ParseError("IP address", psegs[1])
        /\ (Len(psegs) > 2 /\ psegs[1] \in GoodAddrTexts) =>
              pres.err = ParseError("IP/Mask", ptext)
        /\ (Len(psegs) = 2 /\ psegs[1] \in GoodAddrTexts /\ psegs[2] \in BadMaskTexts) =>
              pres.err = ParseError("Mask", Untilded(psegs[2]))
        /\ (Len(psegs) = 2 /\ psegs[1] \in GoodAddrTexts /\ psegs[2] \in GoodMaskTexts) =>
              (pres.err = NoError /\ Len(pres.mask) = IPv4len)
        /\ (Len(psegs) = 1 /\ psegs[1] \in GoodAddrTexts) =>
              (pres.err = NoError /\ pres.mask = Nil)
        /\ pres.err # NoError => (pres.ip = Nil /\ pres.mask = Nil)
        /\ pres.err = NoError => Equal(pres.ip, ParseIP(psegs[1]))

\* "192.0.2.10/24/1" has failed with an "IP/Mask" error naming the whole input.
OverSpecifiedWitness ==
    /\ Parsed
    /\ psegs = << <<"1", "9", "2", ".", "0", ".", "2", ".", "1", "0">>, <<"2", "4">>, <<"1">> >>
    /\ pres.err.Type = "IP/Mask"
    /\ pres.err.Text = ptext
    /\ Len(ptext) = 15

====
